---- MODULE Spec2Model ----
(***************************************************************************)
(* A model of knx_log_splitter.py: the frame decoders, the partition loop  *)
(* of KNXSplitter.split_and_save and the textual post-processing pass      *)
(* insert_comments.                                                        *)
(*                                                                         *)
(* Text is modelled as it is in the program: a Python str is a sequence of *)
(* one-character strings, so slicing, endswith, startswith, split, strip   *)
(* and replace are computed character by character.                        *)
(***************************************************************************)
EXTENDS Integers, Sequences, FiniteSets, TLC

VARIABLES
    \* KNXSplitter and split_and_save
    filter_list, xml_data, pc, idx, last_destination,
    filtered_telegrams, other_telegrams, filtered_comments, other_comments,
    filtered_file, other_file,
    \* history: where the loop put the telegram of each input position
    route,
    \* the decoders applied to one raw frame
    rawdata, group_address, physical_address, dpc,
    \* one filter entry against one decoded address
    entry, address, matched, mpc

vars == <<filter_list, xml_data, pc, idx, last_destination,
          filtered_telegrams, other_telegrams, filtered_comments, other_comments,
          filtered_file, other_file, route,
          rawdata, group_address, physical_address, dpc,
          entry, address, matched, mpc>>

splitVars == <<filter_list, xml_data, pc, idx, last_destination,
               filtered_telegrams, other_telegrams, filtered_comments,
               other_comments, filtered_file, other_file, route>>

decodeVars == <<rawdata, group_address, physical_address, dpc>>

matchVars == <<entry, address, matched, mpc>>

None == "None"

----------------------------------------------------------------------------
(* Python str operations *)

Min(a, b) == IF a < b THEN a ELSE b

\* s[a:b] with 0 <= a <= b: the slice is cut at the end of the string
Slice(s, a, b) == SubSeq(s, a + 1, Min(b, Len(s)))

\* s[a:]
SliceFrom(s, a) == SubSeq(s, a + 1, Len(s))

\* s.startswith(p)
StartsWith(s, p) == Len(p) <= Len(s) /\ SubSeq(s, 1, Len(p)) = p

\* s.endswith(p)
EndsWith(s, p) ==
    Len(p) <= Len(s) /\ SubSeq(s, Len(s) - Len(p) + 1, Len(s)) = p

\* the offsets (0-based) at which the non-empty string sub occurs in s
Occurrences(s, sub) ==
    {i \in 0..(Len(s) - Len(sub)) :
        s[i + 1] = sub[1] /\ SubSeq(s, i + 1, i + Len(sub)) = sub}

\* the least element of a non-empty set of offsets
Least(S) == CHOOSE i \in S : \A j \in S : i <= j

\* sub in s
Contains(s, sub) == Occurrences(s, sub) # {}

\* s.split(sep): the pieces between the non-overlapping occurrences of sep,
\* found from left to right
RECURSIVE Split(_, _)
Split(s, sep) ==
    LET occ == Occurrences(s, sep)
    IN  IF occ = {}
        THEN <<s>>
        ELSE <<SubSeq(s, 1, Least(occ))>>
             \o Split(SliceFrom(s, Least(occ) + Len(sep)), sep)

\* s.replace(old, new): every non-overlapping occurrence, left to right
RECURSIVE Replace(_, _, _)
Replace(s, old, new) ==
    LET occ == Occurrences(s, old)
    IN  IF occ = {}
        THEN s
        ELSE SubSeq(s, 1, Least(occ)) \o new
             \o Replace(SliceFrom(s, Least(occ) + Len(old)), old, new)

Whitespace == {" ", "\t", "\n"}

\* s.lstrip()
RECURSIVE LStrip(_)
LStrip(s) ==
    IF s # <<>> /\ Head(s) \in Whitespace THEN LStrip(Tail(s)) ELSE s

\* s.rstrip()
RECURSIVE RStrip(_)
RStrip(s) ==
    IF s # <<>> /\ s[Len(s)] \in Whitespace
    THEN RStrip(SubSeq(s, 1, Len(s) - 1))
    ELSE s

\* s.strip()
Strip(s) == RStrip(LStrip(s))

\* ' ' * n (empty when n <= 0)
Spaces(n) == [i \in 1..n |-> " "]

DecDigits == <<"0", "1", "2", "3", "4", "5", "6", "7", "8", "9">>

\* str(n) for a natural number n
RECURSIVE NatStr(_)
NatStr(n) ==
    IF n < 10 THEN <<DecDigits[n + 1]>>
    ELSE NatStr(n \div 10) \o <<DecDigits[(n % 10) + 1]>>

\* f"{n}" for an integer n
IntStr(n) == IF n < 0 THEN <<"-">> \o NatStr(0 - n) ELSE NatStr(n)

HexUpper == <<"0", "1", "2", "3", "4", "5", "6", "7", "8", "9",
              "A", "B", "C", "D", "E", "F">>

HexLower == <<"0", "1", "2", "3", "4", "5", "6", "7", "8", "9",
              "a", "b", "c", "d", "e", "f">>

IsHexDigit(c) == \E i \in 1..16 : HexUpper[i] = c \/ HexLower[i] = c

HexVal(c) == (CHOOSE i \in 1..16 : HexUpper[i] = c \/ HexLower[i] = c) - 1

RECURSIVE HexNumber(_)
HexNumber(ds) ==
    IF ds = <<>> THEN 0
    ELSE 16 * HexNumber(SubSeq(ds, 1, Len(ds) - 1)) + HexVal(ds[Len(ds)])

\* int(s, 16) on a slice of at most two characters: surrounding whitespace is
\* stripped, one sign is accepted, and what remains must be one or more hex
\* digits; anything else raises ValueError (ok = FALSE).  (A "0x" prefix or a
\* "_" between digits needs three characters to be valid.)
PyIntBase16(s) ==
    LET t      == Strip(s)
        signed == t # <<>> /\ Head(t) \in {"+", "-"}
        digits == IF signed THEN Tail(t) ELSE t
        valid  == digits # <<>>
                  /\ \A i \in 1..Len(digits) : IsHexDigit(digits[i])
    IN  IF ~valid THEN [ok |-> FALSE, val |-> 0]
        ELSE [ok  |-> TRUE,
              val |-> IF signed /\ Head(t) = "-"
                      THEN 0 - HexNumber(digits)
                      ELSE HexNumber(digits)]

\* (b & 0xF0) >> 4 on a Python int (two's complement for negative b)
HighNibble(b) == (b % 256) \div 16

\* b & 0x0F
LowNibble(b) == b % 16

----------------------------------------------------------------------------
(* Frame decoders *)

CC == <<"C", "C">>

IGNORE == <<"I", "G", "N", "O", "R", "E">>

AckMaxLen == 24

GaMinLen == 28

ziel_start == 28

PaMinLen == 26

quell_start == 24

\* f"{haupt}/{mittel}/{unter}"
GroupAddressText(haupt, mittel, unter) ==
    IntStr(haupt) \o <<"/">> \o IntStr(mittel) \o <<"/">> \o IntStr(unter)

\* f"{haupt}.{linie}.{teilnehmer}"
PhysicalAddressText(haupt, linie, teilnehmer) ==
    IntStr(haupt) \o <<".">> \o IntStr(linie) \o <<".">> \o IntStr(teilnehmer)

\* extract_group_address(rawdata): "IGNORE", "" (an exception was caught) or
\* the rendering f"{haupt}/{mittel}/{unter}"
extract_group_address(raw) ==
    IF EndsWith(raw, CC) /\ Len(raw) <= AckMaxLen THEN IGNORE
    ELSE IF Len(raw) < GaMinLen THEN IGNORE
    ELSE IF Len(raw) < ziel_start + 4 THEN IGNORE
    ELSE LET byte1 == PyIntBase16(Slice(raw, ziel_start, ziel_start + 2))
             byte2 == PyIntBase16(Slice(raw, ziel_start + 2, ziel_start + 4))
         IN  IF ~byte1.ok \/ ~byte2.ok THEN <<>>
             ELSE GroupAddressText(HighNibble(byte1.val), LowNibble(byte1.val),
                                   byte2.val)

\* KNXSplitter.get_physical_address(rawdata): "" or f"{haupt}.{linie}.{teilnehmer}"
get_physical_address(raw) ==
    IF EndsWith(raw, CC) THEN <<>>
    ELSE IF Len(raw) < PaMinLen THEN <<>>
    ELSE LET byte1 == PyIntBase16(Slice(raw, quell_start, quell_start + 2))
             byte2 == PyIntBase16(Slice(raw, quell_start + 2, quell_start + 4))
         IN  IF ~byte1.ok \/ ~byte2.ok THEN <<>>
             ELSE PhysicalAddressText(HighNibble(byte1.val), LowNibble(byte1.val),
                                      byte2.val)

----------------------------------------------------------------------------
(* The document: xmltodict's view of the input file *)

\* A telegram is the ordered sequence of its attributes, each <<name, value>>
\* (xmltodict's '@name' keys, in document order).
RawDataName == <<"R", "a", "w", "D", "a", "t", "a">>

\* telegram.get('@RawData', '')
GetRawData(telegram) ==
    IF \E i \in 1..Len(telegram) : telegram[i][1] = RawDataName
    THEN telegram[CHOOSE i \in 1..Len(telegram) : telegram[i][1] = RawDataName][2]
    ELSE <<>>

\* self.xml_data['CommunicationLog']['Telegram'], as a list (xml_data is None
\* until read_xml has run)
Telegrams == IF pc = "init" THEN <<>> ELSE xml_data.Telegram

\* the loop variable's telegram (idx counts the telegrams already handled)
CurrentTelegram == Telegrams[idx + 1]

----------------------------------------------------------------------------
(* KNXSplitter.__init__: filter normalisation *)

Slash == <<"/">>

\* mutant: the entry is stored as given
NormalizeEntryAsGiven(ga) == ga

\* ga if ga.endswith('/') else ga + '/'
NormalizeEntry(ga) == IF EndsWith(ga, Slash) THEN ga ELSE ga \o Slash

\* the loop building self.filter_list: empty entries are left out
RECURSIVE NormalizeFilters(_)
NormalizeFilters(gas) ==
    IF gas = <<>> THEN <<>>
    ELSE IF Head(gas) = <<>> THEN NormalizeFilters(Tail(gas))
    ELSE <<NormalizeEntry(Head(gas))>> \o NormalizeFilters(Tail(gas))

\* mutant: only the first entry of the filter list is tried
MatchesFirstFilter(ga, filters) ==
    filters # <<>> /\ StartsWith(ga, filters[1])

\* any(group_address.startswith(f) for f in self.filter_list)
MatchesFilter(ga, filters) ==
    \E i \in 1..Len(filters) : StartsWith(ga, filters[i])

----------------------------------------------------------------------------
(* split_and_save: the partition loop *)

\* is_ack = rawdata.endswith('CC') and len(rawdata) <= 24
is_ack(raw) == EndsWith(raw, CC) /\ Len(raw) <= AckMaxLen

CommentOpen == <<"<", "!", "-", "-", " ">>

CommentClose == <<" ", "-", "-", ">">>

GaLabel == <<"G", "A", ":", " ">>

QaLabel == <<" ", ";", " ", "Q", "A", ":", " ">>

IgnoreText ==
    <<"I", "G", "N", "O", "R", "E", " ", "(", "u", "n", "b", "e", "s", "t",
      "i", "m", "m", "t", ")">>

\* f"<!-- GA: {group_address} ; QA: {physical_address} -->"
Comment(ga, pa) == CommentOpen \o GaLabel \o ga \o QaLabel \o pa \o CommentClose

\* f"<!-- GA: IGNORE (unbestimmt) ; QA: {physical_address} -->"
IgnoreComment(pa) == Comment(IgnoreText, pa)

\* group_address == "IGNORE" or group_address == ""
NoGroupAddress(ga) == ga = IGNORE \/ ga = <<>>

\* mutant: an acknowledgement always goes to the filtered stream
AckAlwaysFiltered(last) == "filtered"

\* the stream an acknowledgement follows
AckDestination(last) == IF last = "other" THEN "other" ELSE "filtered"

\* the stream of a telegram with a decoded group address
DataDestination(ga, filters) ==
    IF MatchesFilter(ga, filters) THEN "filtered" ELSE "other"

InLoop == pc = "loop" /\ idx < Len(Telegrams)

\* mutant: the other stream gets the comment but not the telegram
AppendCommentOnlyToOther(dest, telegram, comment) ==
    IF dest = "filtered"
    THEN /\ filtered_telegrams' = Append(filtered_telegrams, telegram)
         /\ filtered_comments' = Append(filtered_comments, comment)
         /\ UNCHANGED <<other_telegrams, other_comments>>
    ELSE /\ other_comments' = Append(other_comments, comment)
         /\ UNCHANGED <<other_telegrams, filtered_telegrams, filtered_comments>>

\* appending (telegram, comment) to the collectors of stream dest
AppendTo(dest, telegram, comment) ==
    IF dest = "filtered"
    THEN /\ filtered_telegrams' = Append(filtered_telegrams, telegram)
         /\ filtered_comments' = Append(filtered_comments, comment)
         /\ UNCHANGED <<other_telegrams, other_comments>>
    ELSE /\ other_telegrams' = Append(other_telegrams, telegram)
         /\ other_comments' = Append(other_comments, comment)
         /\ UNCHANGED <<filtered_telegrams, filtered_comments>>

\* if not rawdata: continue
SkipEmpty ==
    /\ InLoop
    /\ GetRawData(CurrentTelegram) = <<>>
    /\ idx' = idx + 1
    /\ route' = Append(route, "skipped")
    /\ UNCHANGED <<filter_list, xml_data, pc, last_destination,
                   filtered_telegrams, other_telegrams, filtered_comments,
                   other_comments, filtered_file, other_file>>
    /\ UNCHANGED <<decodeVars, matchVars>>

\* if is_ack: the acknowledgement follows the last decision
RouteAck ==
    /\ InLoop
    /\ GetRawData(CurrentTelegram) # <<>>
    /\ is_ack(GetRawData(CurrentTelegram))
    /\ AppendTo(AckDestination(last_destination), CurrentTelegram, <<>>)
    /\ idx' = idx + 1
    /\ route' = Append(route, AckDestination(last_destination))
    /\ UNCHANGED <<filter_list, xml_data, pc, last_destination,
                   filtered_file, other_file>>
    /\ UNCHANGED <<decodeVars, matchVars>>

\* no group address: to the filtered stream with the IGNORE comment
RouteIgnore ==
    /\ InLoop
    /\ GetRawData(CurrentTelegram) # <<>>
    /\ ~is_ack(GetRawData(CurrentTelegram))
    /\ NoGroupAddress(extract_group_address(GetRawData(CurrentTelegram)))
    /\ AppendTo("filtered", CurrentTelegram,
                IgnoreComment(get_physical_address(GetRawData(CurrentTelegram))))
    /\ last_destination' = "filtered"
    /\ idx' = idx + 1
    /\ route' = Append(route, "filtered")
    /\ UNCHANGED <<filter_list, xml_data, pc, filtered_file, other_file>>
    /\ UNCHANGED <<decodeVars, matchVars>>

\* a decoded group address: by the filter list (last_effective_ga is assigned
\* here and read nowhere, so it is no part of the state)
RouteData ==
    /\ InLoop
    /\ GetRawData(CurrentTelegram) # <<>>
    /\ ~is_ack(GetRawData(CurrentTelegram))
    /\ ~NoGroupAddress(extract_group_address(GetRawData(CurrentTelegram)))
    /\ LET raw  == GetRawData(CurrentTelegram)
           ga   == extract_group_address(raw)
           dest == DataDestination(ga, filter_list)
       IN  /\ AppendTo(dest, CurrentTelegram, Comment(ga, get_physical_address(raw)))
           /\ last_destination' = dest
           /\ route' = Append(route, dest)
    /\ idx' = idx + 1
    /\ UNCHANGED <<filter_list, xml_data, pc, filtered_file, other_file>>
    /\ UNCHANGED <<decodeVars, matchVars>>

----------------------------------------------------------------------------
(* split_and_save: writing the two files *)

Quote == <<"\"">>

TelegramOpen == <<"<", "T", "e", "l", "e", "g", "r", "a", "m">>

TelegramClose == <<"<", "/", "T", "e", "l", "e", "g", "r", "a", "m", ">">>

RootName ==
    <<"C", "o", "m", "m", "u", "n", "i", "c", "a", "t", "i", "o", "n",
      "L", "o", "g">>

XmlDeclaration ==
    <<"<", "?", "x", "m", "l", " ", "v", "e", "r", "s", "i", "o", "n", "=",
      "\"", "1", ".", "0", "\"", " ", "e", "n", "c", "o", "d", "i", "n", "g",
      "=", "\"", "u", "t", "f", "-", "8", "\"", "?", ">", "\n">>

\* 'RawData="'
RawDataEq == RawDataName \o <<"=">> \o Quote

\* '" />'
SelfClose == Quote \o <<" ", "/", ">">>

\* the attributes of a start tag as XMLGenerator writes them: ' name="value"'
RECURSIVE AttrText(_)
AttrText(attrs) ==
    IF attrs = <<>> THEN <<>>
    ELSE <<" ">> \o Head(attrs)[1] \o <<"=">> \o Quote \o Head(attrs)[2] \o Quote
         \o AttrText(Tail(attrs))

\* the line xmltodict.unparse(pretty=True) writes for one telegram
TelegramLine(telegram) ==
    <<"\t">> \o TelegramOpen \o AttrText(telegram) \o <<">">> \o TelegramClose
    \o <<"\n">>

\* xmltodict.unparse(data, pretty=True) followed by readlines(): the
\* declaration, the root's start tag with the attributes of commlog_attrs, one
\* line per telegram and the root's end tag
Unparse(attrs, telegrams) ==
    <<XmlDeclaration,
      <<"<">> \o RootName \o AttrText(attrs) \o <<">", "\n">>>>
    \o [i \in 1..Len(telegrams) |-> TelegramLine(telegrams[i])]
    \o <<(<<"<", "/">> \o RootName \o <<">">>)>>

CommentColumn == 165

SemicolonColumn == 183

IndentWidth == 4

CommentOpenLen == 5

\* the comment as insert_comments appends it to a telegram_part that has
\* been padded already
AlignedComment(telegram_part, annotation) ==
    LET comment     == Replace(annotation, CommentOpen, <<>>)
        ga_part     == Strip(Split(comment, <<";">>)[1])
        qa_part     == Strip(Split(comment, <<";">>)[2])
        current_pos == Len(telegram_part) + IndentWidth
        semicolon_pos == current_pos + CommentOpenLen + Len(ga_part)
        spaces_before_semicolon == SemicolonColumn - semicolon_pos
    IN  IF spaces_before_semicolon > 0
        THEN CommentOpen \o ga_part \o Spaces(spaces_before_semicolon)
             \o <<";", " ">> \o qa_part
        ELSE comment

\* telegram_part, with spaces up to the comment column
PaddedTelegramPart(telegram_part) ==
    LET spaces_needed == CommentColumn - (Len(telegram_part) + IndentWidth)
    IN  IF spaces_needed > 0 THEN telegram_part \o Spaces(spaces_needed)
        ELSE telegram_part

\* f'{parts[0]}RawData="{rawdata_part}" />'
TelegramPart(parts) ==
    parts[1] \o RawDataEq \o Split(parts[2], Quote)[1] \o SelfClose

\* '<Telegram' in line and '</Telegram>' in line
IsTelegramLine(line) == Contains(line, TelegramOpen) /\ Contains(line, TelegramClose)

\* the body of the loop over the lines: the rewritten line
RewriteLine(line, comments, comment_idx) ==
    IF ~IsTelegramLine(line) THEN line
    ELSE LET parts == Split(LStrip(line), RawDataEq)
         IN  IF Len(parts) # 2 THEN LStrip(line)
             ELSE IF comment_idx < Len(comments) /\ comments[comment_idx + 1] # <<>>
             THEN LET padded == PaddedTelegramPart(TelegramPart(parts))
                  IN  Spaces(IndentWidth) \o padded
                      \o AlignedComment(padded, comments[comment_idx + 1])
                      \o <<"\n">>
             ELSE Spaces(IndentWidth) \o TelegramPart(parts) \o <<"\n">>

\* comment_idx += 1 happens for the lines that were rewritten
ConsumesComment(line) ==
    IsTelegramLine(line) /\ Len(Split(LStrip(line), RawDataEq)) = 2

\* insert_comments(xml_path, comments), on the lines of the file
RECURSIVE InsertFrom(_, _, _)
InsertFrom(lines, comments, comment_idx) ==
    IF lines = <<>> THEN <<>>
    ELSE <<RewriteLine(Head(lines), comments, comment_idx)>>
         \o InsertFrom(Tail(lines), comments,
                       IF ConsumesComment(Head(lines)) THEN comment_idx + 1
                       ELSE comment_idx)

insert_comments(lines, comments) == InsertFrom(lines, comments, 0)

\* the loop is over: filtered_data is written and annotated
SaveFiltered ==
    /\ pc = "loop"
    /\ idx = Len(Telegrams)
    /\ filtered_file' =
           insert_comments(Unparse(xml_data.attrs, filtered_telegrams),
                           filtered_comments)
    /\ pc' = "save_other"
    /\ UNCHANGED <<filter_list, xml_data, idx, last_destination,
                   filtered_telegrams, other_telegrams, filtered_comments,
                   other_comments, other_file, route>>
    /\ UNCHANGED <<decodeVars, matchVars>>

\* other_data is written and annotated
SaveOther ==
    /\ pc = "save_other"
    /\ other_file' =
           insert_comments(Unparse(xml_data.attrs, other_telegrams),
                           other_comments)
    /\ pc' = "done"
    /\ UNCHANGED <<filter_list, xml_data, idx, last_destination,
                   filtered_telegrams, other_telegrams, filtered_comments,
                   other_comments, filtered_file, route>>
    /\ UNCHANGED <<decodeVars, matchVars>>

----------------------------------------------------------------------------
(* Inputs *)

MaxTelegrams == 3

\* the 11 header bytes and the control byte
Header == [i \in 1..24 |-> "0"]

Frame(src, dst) == Header \o src \o dst

\* a short acknowledgement frame of 12 bytes
AckFrame == [i \in 1..22 |-> "0"] \o CC

\* a frame of 10 bytes: no room for the addresses
ShortFrame == [i \in 1..20 |-> "0"]

Src == <<"1", "1", "0", "5">>

RawAttr(raw) == <<RawDataName, raw>>

TsAttr == <<<<"T", "s">>, <<"7">>>>

SvAttr == <<<<"S", "v">>, <<"w">>>>

LongAttr == <<<<"N">>, [i \in 1..130 |-> "x"]>>

\* The telegrams of the input documents: every branch of the loop, the raw
\* frame as the first, a middle and the last attribute, group address fields
\* of every width, and an element that is wider than the comment column.
InputTelegrams ==
    { <<RawAttr(AckFrame)>>,
      <<TsAttr, RawAttr(Frame(Src, <<"1", "2", "0", "5">>))>>,
      <<RawAttr(Frame(Src, <<"F", "F", "F", "F">>)), SvAttr>>,
      <<TsAttr, RawAttr(ShortFrame), SvAttr>>,
      <<TsAttr>>,
      <<TsAttr, RawAttr(<<>>)>>,
      <<TsAttr, RawAttr(Frame(Src, <<"G", "G", "0", "5">>))>>,
      <<TsAttr, RawAttr(Frame(Src, <<"+", "1", "0", "5">>))>>,
      <<LongAttr, RawAttr(Frame(Src, <<"1", "C", "0", "5">>))>>,
      <<TsAttr, RawAttr(Frame(Src, <<"1", "2", "C", "C">>))>> }

InputDocuments ==
    UNION {[1..n -> InputTelegrams] : n \in 0..MaxTelegrams}

\* the attributes of the root element
RootAttrs == {<<<<<<"x", "m", "l", "n", "s">>, <<"k">>>>>>}

\* the group_addresses handed to KNXSplitter
FilterInputs ==
    { <<>>,
      <<<<"1", "/", "2">>>>,
      <<<<>>, <<"1">>>>,
      <<<<"1", "5", "/", "1", "5", "/", "2", "5", "5">>, <<"0", "/", "1", "/">>>> }

----------------------------------------------------------------------------
(* The splitter: construction, read_xml, split_and_save *)

DecodeIdle ==
    /\ rawdata = <<>>
    /\ group_address = <<>>
    /\ physical_address = <<>>
    /\ dpc = {}

MatchIdle ==
    /\ entry = [levels |-> <<>>, slash |-> FALSE]
    /\ address = <<0, 0, 0>>
    /\ matched = FALSE
    /\ mpc = "idle"

\* KNXSplitter(input_file, group_addresses)
Init ==
    /\ \E gas \in FilterInputs : filter_list = NormalizeFilters(gas)
    /\ xml_data = None
    /\ pc = "init"
    /\ idx = 0
    /\ last_destination = None
    /\ filtered_telegrams = <<>>
    /\ other_telegrams = <<>>
    /\ filtered_comments = <<>>
    /\ other_comments = <<>>
    /\ filtered_file = <<>>
    /\ other_file = <<>>
    /\ route = <<>>
    /\ DecodeIdle
    /\ MatchIdle

\* read_xml, and the start of split_and_save up to the loop
ReadXml ==
    /\ pc = "init"
    /\ \E attrs \in RootAttrs, telegrams \in InputDocuments :
           xml_data' = [attrs |-> attrs, Telegram |-> telegrams]
    /\ pc' = "loop"
    /\ UNCHANGED <<filter_list, idx, last_destination,
                   filtered_telegrams, other_telegrams, filtered_comments,
                   other_comments, filtered_file, other_file, route>>
    /\ UNCHANGED <<decodeVars, matchVars>>

Next ==
    \/ ReadXml
    \/ SkipEmpty
    \/ RouteAck
    \/ RouteIgnore
    \/ RouteData
    \/ SaveFiltered
    \/ SaveOther

Spec == Init /\ [][Next]_vars

----------------------------------------------------------------------------
(* The decoders on one raw frame *)

\* the byte strings tried at the address offsets: hex bytes in both cases,
\* the acknowledgement marker, non-hex letters, signs and blanks
ByteTexts ==
    { <<"2", "3">>, <<"0", "5">>, <<"F", "F">>, <<"C", "C">>, <<"a", "5">>,
      <<"G", "0">>, <<"+", "1">>, <<"-", "1">>, <<" ", "1">> }

FrameTails == { <<>>, CC, <<"0", "0">> }

Zeros(n) == [i \in 1..n |-> "0"]

\* Raw frames of every length from 0 to 34: all zeros, zeros closed by the
\* acknowledgement marker, and every prefix that reaches into the address
\* bytes of a frame built from ByteTexts.
DecodeFrames ==
    {Zeros(n) : n \in 0..34}
    \cup {Zeros(n) \o CC : n \in 0..32}
    \cup { Slice(Header \o s1 \o s2 \o d1 \o d2 \o t, 0, n) :
             s1 \in ByteTexts, s2 \in ByteTexts, d1 \in ByteTexts,
             d2 \in ByteTexts, t \in FrameTails, n \in 25..34 }

SplitIdle ==
    /\ filter_list = <<>>
    /\ xml_data = None
    /\ pc = "idle"
    /\ idx = 0
    /\ last_destination = None
    /\ filtered_telegrams = <<>>
    /\ other_telegrams = <<>>
    /\ filtered_comments = <<>>
    /\ other_comments = <<>>
    /\ filtered_file = <<>>
    /\ other_file = <<>>
    /\ route = <<>>

DecodeInit ==
    /\ rawdata \in DecodeFrames
    /\ group_address = <<>>
    /\ physical_address = <<>>
    /\ dpc = {}
    /\ SplitIdle
    /\ MatchIdle

\* group_address = extract_group_address(rawdata)
ExtractGroupAddress ==
    /\ "ga" \notin dpc
    /\ group_address' = extract_group_address(rawdata)
    /\ dpc' = dpc \cup {"ga"}
    /\ UNCHANGED <<rawdata, physical_address>>
    /\ UNCHANGED <<splitVars, matchVars>>

\* physical_address = KNXSplitter.get_physical_address(rawdata)
GetPhysicalAddress ==
    /\ "pa" \notin dpc
    /\ physical_address' = get_physical_address(rawdata)
    /\ dpc' = dpc \cup {"pa"}
    /\ UNCHANGED <<rawdata, group_address>>
    /\ UNCHANGED <<splitVars, matchVars>>

DecodeNext ==
    \/ ExtractGroupAddress
    \/ GetPhysicalAddress

DecodeSpec == DecodeInit /\ [][DecodeNext]_vars

----------------------------------------------------------------------------
(* One filter entry against one decoded group address *)

\* the text of a filter entry: its levels joined by "/", with or without a
\* closing "/"
RECURSIVE JoinLevels(_)
JoinLevels(levels) ==
    IF levels = <<>> THEN <<>>
    ELSE IF Len(levels) = 1 THEN IntStr(levels[1])
    ELSE IntStr(Head(levels)) \o Slash \o JoinLevels(Tail(levels))

EntryText(e) ==
    IF e.levels = <<>> THEN <<>>
    ELSE JoinLevels(e.levels) \o (IF e.slash THEN Slash ELSE <<>>)

TwoLevelValues == {0, 1, 5, 15, 16}

SubValues == {0, 2, 25, 255}

\* the empty entry, every one-level entry "m" and "m/" for m up to 16, two-level
\* entries, and complete three-level addresses
MatchEntries ==
    {[levels |-> <<>>, slash |-> FALSE]}
    \cup {[levels |-> <<m>>, slash |-> b] : m \in 0..16, b \in BOOLEAN}
    \cup {[levels |-> <<m, n>>, slash |-> b] :
            m \in TwoLevelValues, n \in TwoLevelValues, b \in BOOLEAN}
    \cup {[levels |-> <<m, n, u>>, slash |-> b] :
            m \in {1, 15}, n \in {1, 15}, u \in SubValues, b \in BOOLEAN}

\* the decoded addresses: every main and middle group, sub groups of one, two
\* and three digits
MatchAddresses == (0..15) \X (0..15) \X SubValues

MatchInit ==
    /\ entry \in MatchEntries
    /\ address \in MatchAddresses
    /\ matched = FALSE
    /\ mpc = "init"
    /\ filter_list = <<>>
    /\ xml_data = None
    /\ pc = "idle"
    /\ idx = 0
    /\ last_destination = None
    /\ filtered_telegrams = <<>>
    /\ other_telegrams = <<>>
    /\ filtered_comments = <<>>
    /\ other_comments = <<>>
    /\ filtered_file = <<>>
    /\ other_file = <<>>
    /\ route = <<>>
    /\ DecodeIdle

\* KNXSplitter(input_file, [entry]): the filter list is built
BuildFilterList ==
    /\ mpc = "init"
    /\ filter_list' = NormalizeFilters(<<EntryText(entry)>>)
    /\ mpc' = "built"
    /\ UNCHANGED <<entry, address, matched>>
    /\ UNCHANGED <<xml_data, pc, idx, last_destination, filtered_telegrams,
                   other_telegrams, filtered_comments, other_comments,
                   filtered_file, other_file, route>>
    /\ UNCHANGED decodeVars

\* the filter test of split_and_save on the rendered address
MatchAddress ==
    /\ mpc = "built"
    /\ matched' =
         (DataDestination(GroupAddressText(address[1], address[2], address[3]),
                          filter_list) = "filtered")
    /\ mpc' = "done"
    /\ UNCHANGED <<entry, address>>
    /\ UNCHANGED splitVars
    /\ UNCHANGED decodeVars

MatchNext ==
    \/ BuildFilterList
    \/ MatchAddress

MatchSpec == MatchInit /\ [][MatchNext]_vars

----------------------------------------------------------------------------
(* Vocabulary of the properties *)

\* the raw frame of the telegram at input position i
RawAt(i) == GetRawData(Telegrams[i])

\* an acknowledgement: the raw frame ends with "CC" and has length <= 24
Acknowledgement(raw) ==
    /\ Len(raw) >= 2
    /\ raw[Len(raw) - 1] = "C"
    /\ raw[Len(raw)] = "C"
    /\ Len(raw) <= 24

StreamTelegrams(d) == IF d = "filtered" THEN filtered_telegrams ELSE other_telegrams

StreamComments(d) == IF d = "filtered" THEN filtered_comments ELSE other_comments

StreamFile(d) == IF d = "filtered" THEN filtered_file ELSE other_file

Streams == {"filtered", "other"}

\* the place in its stream of the telegram of input position i
PosInStream(i) == Cardinality({j \in 1..i : route[j] = route[i]})

\* the telegram of input position i is in its stream, at its place
Placed(i) ==
    /\ route[i] \in Streams
    /\ PosInStream(i) <= Len(StreamTelegrams(route[i]))
    /\ PosInStream(i) <= Len(StreamComments(route[i]))
    /\ StreamTelegrams(route[i])[PosInStream(i)] = Telegrams[i]

\* the annotation stored with the telegram of input position i
CommentOf(i) == StreamComments(route[i])[PosInStream(i)]

Greatest(S) == CHOOSE i \in S : \A j \in S : j <= i

\* the subsequence of seq at the positions in S, from position i on
RECURSIVE Pick(_, _, _)
Pick(seq, S, i) ==
    IF i > Len(seq) THEN <<>>
    ELSE (IF i \in S THEN <<seq[i]>> ELSE <<>>) \o Pick(seq, S, i + 1)

\* the input positions handled so far whose raw frame is not empty
NonEmptyPositions == {i \in 1..idx : RawAt(i) # <<>>}

\* the positions up to i of telegrams that are neither skipped nor
\* acknowledgements
DataUpTo(i) == {j \in 1..i : RawAt(j) # <<>> /\ ~Acknowledgement(RawAt(j))}

\* two hex digits are present at offsets off and off + 1 of raw
HexByteAt(raw, off) ==
    /\ Len(raw) >= off + 2
    /\ IsHexDigit(raw[off + 1])
    /\ IsHexDigit(raw[off + 2])

\* the value of that byte
ByteAt(raw, off) == 16 * HexVal(raw[off + 1]) + HexVal(raw[off + 2])

\* the frames for which the reference group-address decoder has no address
NoAddressFrame(raw) ==
    \/ Acknowledgement(raw)
    \/ Len(raw) < 28
    \/ ~HexByteAt(raw, 28)
    \/ ~HexByteAt(raw, 30)

----------------------------------------------------------------------------
(* C1: after any number of loop iterations the two streams are a stable     *)
(* partition of the telegrams handled so far that have a non-empty raw      *)
(* frame: some split of their input positions into two sets gives the       *)
(* filtered stream and the other stream, each in input order; telegrams     *)
(* with an empty or missing raw frame are in neither.                       *)
C1_StablePartition ==
    pc # "init" =>
        \E S \in SUBSET NonEmptyPositions :
            /\ filtered_telegrams = Pick(Telegrams, S, 1)
            /\ other_telegrams = Pick(Telegrams, NonEmptyPositions \ S, 1)

\* the loop is over three telegrams: one in each stream and one skipped
C1_Witness ==
    /\ pc = "save_other"
    /\ idx = 3
    /\ Len(filtered_telegrams) = 1
    /\ Len(other_telegrams) = 1

----------------------------------------------------------------------------
(* C2: every acknowledgement is in the stream of the nearest preceding      *)
(* telegram that is neither an acknowledgement nor skipped (the filtered    *)
(* stream when there is none), with an empty annotation; last_destination   *)
(* is the stream of the latest such telegram, so acknowledgements and       *)
(* skipped telegrams never change it.                                       *)
C2_AckFollowsLastData ==
    pc # "init" =>
        /\ Len(route) = idx
        /\ \A i \in 1..idx : route[i] = "skipped" \/ Placed(i)
        /\ \A i \in 1..idx :
              (RawAt(i) # <<>> /\ Acknowledgement(RawAt(i))) =>
                  /\ route[i] = IF DataUpTo(i - 1) = {} THEN "filtered"
                                ELSE route[Greatest(DataUpTo(i - 1))]
                  /\ Placed(i)
                  /\ CommentOf(i) = <<>>
        /\ last_destination = IF DataUpTo(idx) = {} THEN None
                              ELSE route[Greatest(DataUpTo(idx))]

\* a telegram in the other stream followed by two acknowledgements
C2_Witness ==
    /\ pc = "loop"
    /\ idx = 3
    /\ ~Acknowledgement(RawAt(1))
    /\ Acknowledgement(RawAt(2))
    /\ Acknowledgement(RawAt(3))
    /\ route = <<"other", "other", "other">>

----------------------------------------------------------------------------
(* C3: a telegram that is not an acknowledgement and whose group address    *)
(* decodes is in the filtered stream iff some entry of the filter list,     *)
(* every entry ending with "/", is a prefix of the rendered address, and in *)
(* the other stream otherwise; last_destination is then that stream.  With  *)
(* filter "1/2/", "1/2/5" matches and "1/20/5" does not.                    *)
C3_PrefixRouting ==
    /\ DataDestination(<<"1", "/", "2", "/", "5">>, <<<<"1", "/", "2", "/">>>>)
         = "filtered"
    /\ DataDestination(<<"1", "/", "2", "0", "/", "5">>, <<<<"1", "/", "2", "/">>>>)
         = "other"
    /\ \A k \in 1..Len(filter_list) :
          filter_list[k] # <<>> /\ filter_list[k][Len(filter_list[k])] = "/"
    /\ pc # "init" =>
          \A i \in 1..idx :
              LET ga == extract_group_address(RawAt(i))
              IN  (RawAt(i) # <<>> /\ ~Acknowledgement(RawAt(i))
                   /\ ga # IGNORE /\ ga # <<>>) =>
                      /\ Placed(i)
                      /\ route[i] = "filtered" <=>
                            \E k \in 1..Len(filter_list) :
                                StartsWith(ga, filter_list[k])
                      /\ i = idx => last_destination = route[i]

\* a matching telegram, then one that no entry matches
C3_Witness ==
    /\ pc = "loop"
    /\ idx = 2
    /\ filter_list # <<>>
    /\ route = <<"filtered", "other">>
    /\ extract_group_address(RawAt(1)) \notin {IGNORE, <<>>}
    /\ extract_group_address(RawAt(2)) \notin {IGNORE, <<>>}
    /\ last_destination = "other"

----------------------------------------------------------------------------
(* C4: every telegram with a non-empty raw frame that is not an             *)
(* acknowledgement and whose group address cannot be decoded (the frame is  *)
(* too short for it, or the address offsets do not hold hex digits) is in   *)
(* the filtered stream with the annotation                                  *)
(* "<!-- GA: IGNORE (unbestimmt) ; QA: {physical} -->", last_destination is *)
(* then "filtered", and the acknowledgements that follow it are in the      *)
(* filtered stream.                                                         *)
C4_UndecodableToFiltered ==
    pc # "init" =>
        \A i \in 1..idx :
            (RawAt(i) # <<>> /\ ~Acknowledgement(RawAt(i))
             /\ NoAddressFrame(RawAt(i))) =>
                /\ route[i] = "filtered"
                /\ Placed(i)
                /\ CommentOf(i) =
                      CommentOpen \o GaLabel \o IgnoreText \o QaLabel
                      \o get_physical_address(RawAt(i)) \o CommentClose
                /\ i = idx => last_destination = "filtered"
                /\ \A j \in (i + 1)..idx :
                      (\A k \in (i + 1)..j : Acknowledgement(RawAt(k))) =>
                          route[j] = "filtered"

----------------------------------------------------------------------------
(* C5: extract_group_address returns a no-address sentinel ("IGNORE" or "") *)
(* for an acknowledgement, for a frame shorter than 28 characters and for a *)
(* frame without two complete hex bytes at offsets 28..31, and otherwise    *)
(* "main/middle/sub" with main and middle the high and low nibble of the    *)
(* byte at offset 28 and sub the byte at offset 30.                         *)
C5_GroupDecoderAgrees ==
    "ga" \in dpc =>
        IF NoAddressFrame(rawdata)
        THEN group_address \in {IGNORE, <<>>}
        ELSE group_address =
                 NatStr(ByteAt(rawdata, 28) \div 16) \o <<"/">>
                 \o NatStr(ByteAt(rawdata, 28) % 16) \o <<"/">>
                 \o NatStr(ByteAt(rawdata, 30))

----------------------------------------------------------------------------
(* C6: get_physical_address returns "" for a frame that ends with "CC" or   *)
(* is shorter than 26 characters; it returns a non-empty address only when  *)
(* the bytes at offsets 24..25 and 26..27 are both completely present, and  *)
(* then "main.line.device" with main and line the high and low nibble of    *)
(* the first and device the second.                                         *)
C6_PhysicalDecoderAgrees ==
    "pa" \in dpc =>
        LET text == NatStr(ByteAt(rawdata, 24) \div 16) \o <<".">>
                    \o NatStr(ByteAt(rawdata, 24) % 16) \o <<".">>
                    \o NatStr(ByteAt(rawdata, 26))
            present == HexByteAt(rawdata, 24) /\ HexByteAt(rawdata, 26)
        IN  /\ (EndsWith(rawdata, CC) \/ Len(rawdata) < 26) =>
                   physical_address = <<>>
            /\ physical_address # <<>> => present
            /\ (present /\ ~EndsWith(rawdata, CC)) => physical_address = text

----------------------------------------------------------------------------
(* Vocabulary of the rendered lines *)

\* the line of the k-th telegram of a written file (after the declaration
\* and the root's start tag)
TelegramLineOf(d, k) == StreamFile(d)[k + 2]

\* the column (counted from 1) of the ">" that closes the element of a line
ElementEnd(line) == Least(Occurrences(line, <<"/", ">">>)) + 2

\* what follows the element on its line, without the line break
Suffix(line) == SubSeq(line, ElementEnd(line) + 1, Len(line) - 1)

\* the length of the group-address field "GA: ..." of an annotation: the text
\* between "<!-- " and " ;"
GaFieldLen(annotation) == Least(Occurrences(annotation, <<";">>)) - 6

NotSpace(c) == c # " "

WithoutSpaces(s) == SelectSeq(s, NotSpace)

----------------------------------------------------------------------------
(* C7: for every telegram with a non-empty annotation whose indented        *)
(* element ends before column 165 and whose group-address field (from       *)
(* column 170) ends before column 183, "<!--" begins at column 165 and the  *)
(* semicolon after the group-address field is at column 183, columns        *)
(* counted from 1 at the start of the line.                                 *)
C7_CommentColumns ==
    pc = "done" =>
        \A d \in Streams : \A k \in 1..Len(StreamComments(d)) :
            LET line == TelegramLineOf(d, k)
                ann  == StreamComments(d)[k]
            IN  (/\ ann # <<>>
                 /\ ElementEnd(line) < 165
                 /\ 169 + GaFieldLen(ann) < 183) =>
                    /\ Len(line) >= 183
                    /\ SubSeq(line, 165, 168) = <<"<", "!", "-", "-">>
                    /\ line[183] = ";"
                    /\ \A c \in 1..182 : line[c] # ";"

----------------------------------------------------------------------------
(* C8: a telegram line has a trailing comment iff its annotation is not     *)
(* empty, and the comment is the whole annotation                           *)
(* "<!-- GA: ... ; QA: ... -->", opening token included, changed only by    *)
(* padding spaces; a telegram with an empty annotation is the indented      *)
(* self-closing element and nothing else.                                   *)
C8_CommentComplete ==
    pc = "done" =>
        \A d \in Streams : \A k \in 1..Len(StreamComments(d)) :
            LET line == TelegramLineOf(d, k)
                ann  == StreamComments(d)[k]
            IN  /\ SubSeq(line, 1, 13) = Spaces(4) \o TelegramOpen
                /\ IF ann = <<>>
                   THEN Suffix(line) = <<>>
                   ELSE /\ Contains(Suffix(line), <<"<", "!", "-", "-">>)
                        /\ WithoutSpaces(Suffix(line)) = WithoutSpaces(ann)

----------------------------------------------------------------------------
(* C9: the line of every routed telegram carries all of the telegram's      *)
(* attributes, with their values and in their order, wherever the raw frame *)
(* stands among them; the root's attributes are in both files as they were  *)
(* read.                                                                    *)
C9_AttributesKept ==
    pc = "done" =>
        \A d \in Streams :
            /\ StreamFile(d)[2] =
                   <<"<">> \o RootName \o AttrText(xml_data.attrs) \o <<">", "\n">>
            /\ \A k \in 1..Len(StreamTelegrams(d)) :
                   LET line == TelegramLineOf(d, k)
                   IN  SubSeq(line, 1, ElementEnd(line)) =
                           Spaces(4) \o TelegramOpen
                           \o AttrText(StreamTelegrams(d)[k]) \o <<" ", "/", ">">>

----------------------------------------------------------------------------
(* C10: after normalisation (an empty entry is dropped, any other entry     *)
(* ends with exactly the "/" it had or was given) a one-level entry selects *)
(* exactly the addresses with its main group, a two-level entry exactly     *)
(* those with its main and middle group, and a complete three-level address *)
(* selects none.                                                            *)
C10_MatchByLevels ==
    mpc = "done" =>
        LET lv == entry.levels
        IN  /\ lv = <<>> => (filter_list = <<>> /\ ~matched)
            /\ lv # <<>> => filter_list = <<JoinLevels(lv) \o <<"/">>>>
            /\ Len(lv) = 1 => (matched <=> address[1] = lv[1])
            /\ Len(lv) = 2 =>
                  (matched <=> (address[1] = lv[1] /\ address[2] = lv[2]))
            /\ Len(lv) = 3 => ~matched

\* the entry "1", stored as "1/", selects an address of main group 1
C10_Witness ==
    /\ mpc = "done"
    /\ entry = [levels |-> <<1>>, slash |-> FALSE]
    /\ address[1] = 1
    /\ matched

====
